---- MODULE Spec2Model ----
(***************************************************************************)
(* Resume-parsing HTTP service (src/app.py): POST /predict validates an    *)
(* uploaded file, extracts the text of the PDF page by page, normalizes    *)
(* the whitespace, sends a fixed prompt to a text-generation service,      *)
(* strips code fences from the reply, parses it as JSON and answers.       *)
(*                                                                         *)
(* Texts are sequences of one-character strings, so that rsplit, lower,    *)
(* re.sub, strip, replace and join are computed character by character.    *)
(***************************************************************************)
EXTENDS Integers, Sequences, FiniteSets, TLC

VARIABLES req, xt, nt, cl

vars == <<req, xt, nt, cl>>

(***************************************************************************)
(* Bounds of the model.                                                    *)
(***************************************************************************)
NumReqs == 2
MaxPages == 3
MaxTextLen == 5
MaxInner == 3

Reqs == 1..NumReqs

(***************************************************************************)
(* Generic helpers on texts.                                               *)
(***************************************************************************)
SeqsUpTo(S, n) == UNION {[1..k -> S] : k \in 0..n}

Max(S) == CHOOSE x \in S : \A y \in S : y <= x

StartsWith(s, p) == Len(s) >= Len(p) /\ SubSeq(s, 1, Len(p)) = p

Drop(s, k) == SubSeq(s, k + 1, Len(s))

\* Optional[str]: None, or a text.
NoneStr == [some |-> FALSE, s |-> <<>>]
Some(s) == [some |-> TRUE, s |-> s]

(***************************************************************************)
(* str.lower() and str.rsplit('.', 1), as used on the file name.           *)
(***************************************************************************)
LowerChar(c) ==
  CASE c = "C" -> "c" [] c = "V" -> "v" [] c = "P" -> "p" [] c = "D" -> "d"
    [] c = "F" -> "f" [] c = "T" -> "t" [] c = "X" -> "x" [] OTHER -> c

Lower(s) == [i \in 1..Len(s) |-> LowerChar(s[i])]

\* Position of the last '.', 0 when there is none.
LastDot(s) == Max({0} \cup {i \in 1..Len(s) : s[i] = "."})

\* filename.rsplit('.', 1): one element when there is no '.', else two.
RSplitDot(s) ==
  IF LastDot(s) = 0 THEN <<s>>
  ELSE <<SubSeq(s, 1, LastDot(s) - 1), Drop(s, LastDot(s))>>

ALLOWED_EXTENSIONS == {<<"p", "d", "f">>}

allowed_file(filename) ==
  /\ \E i \in 1..Len(filename) : filename[i] = "."
  /\ Lower(RSplitDot(filename)[2]) \in ALLOWED_EXTENSIONS

(***************************************************************************)
(* re.sub(r'\s+', ' ', text).strip()                                       *)
(* \s and strip() use the same whitespace class (str.isspace).             *)
(***************************************************************************)
IsSpace(c) == c \in {" ", "\t", "\n", "\r", "\f"}

RECURSIVE LStrip(_)
LStrip(s) == IF s # <<>> /\ IsSpace(Head(s)) THEN LStrip(Tail(s)) ELSE s

RECURSIVE RStrip(_)
RStrip(s) ==
  IF s # <<>> /\ IsSpace(s[Len(s)]) THEN RStrip(SubSeq(s, 1, Len(s) - 1)) ELSE s

Strip(s) == RStrip(LStrip(s))

\* Every maximal run of whitespace becomes one space.
RECURSIVE ReSubSpaces(_)
ReSubSpaces(s) ==
  IF s = <<>> THEN <<>>
  ELSE IF IsSpace(Head(s)) THEN <<" ">> \o ReSubSpaces(LStrip(s))
  ELSE <<Head(s)>> \o ReSubSpaces(Tail(s))

preprocess_no_strip(text) == ReSubSpaces(text)

preprocess_resume_text(text) == Strip(ReSubSpaces(text))

(***************************************************************************)
(* The prompt: a fixed instruction text around the resume text.            *)
(***************************************************************************)
PromptHead == <<"Please analyze the following resume text ... Resume Text:">>
PromptTail == <<"Provide the output in valid JSON format only, without any additional text.">>

_create_prompt(resume_text) == PromptHead \o resume_text \o PromptTail

(***************************************************************************)
(* response.replace(FENCE + 'json', '').replace(FENCE, '').strip(), where  *)
(* FENCE is three backticks.  BT stands for the backtick character, which  *)
(* a TLA+ string cannot hold.                                              *)
(***************************************************************************)
BT == "backtick"
Fence == <<BT, BT, BT>>
FenceJson == Fence \o <<"j", "s", "o", "n">>

\* str.replace(old, ''): non-overlapping occurrences, left to right.
RECURSIVE Remove(_, _)
Remove(s, old) ==
  IF Len(s) < Len(old) THEN s
  ELSE IF StartsWith(s, old) THEN Remove(Drop(s, Len(old)), old)
  ELSE <<Head(s)>> \o Remove(Tail(s), old)

_clean_response(response) == Strip(Remove(Remove(response, FenceJson), Fence))

(***************************************************************************)
(* "\n".join(text_content)                                                 *)
(***************************************************************************)
RECURSIVE JoinTrailing(_)
JoinTrailing(parts) ==
  IF parts = <<>> THEN <<>>
  ELSE Head(parts) \o <<"\n">> \o JoinTrailing(Tail(parts))

RECURSIVE JoinLines(_)
JoinLines(parts) ==
  IF parts = <<>> THEN <<>>
  ELSE IF Len(parts) = 1 THEN parts[1]
  ELSE Head(parts) \o <<"\n">> \o JoinLines(Tail(parts))

(***************************************************************************)
(* json.loads on the texts the model's replies clean to.  A parsed value   *)
(* is [kind, n]: n is the number, the truth value (0/1) or the length.     *)
(* Python's None is the JSON null.                                         *)
(***************************************************************************)
NoneVal == [kind |-> "null", n |-> 0]
JsonErr == [ok |-> FALSE, v |-> NoneVal]
JsonOk(kind, n) == [ok |-> TRUE, v |-> [kind |-> kind, n |-> n]]

TxtObjA == <<"{", "\"", "a", "\"", ":", "1", "}">>

json_loads(s) ==
  CASE s = <<"{", "}">> -> JsonOk("object", 0)
    [] s = <<"[", "]">> -> JsonOk("array", 0)
    [] s = <<"n", "u", "l", "l">> -> JsonOk("null", 0)
    [] s = <<"f", "a", "l", "s", "e">> -> JsonOk("bool", 0)
    [] s = <<"0">> -> JsonOk("number", 0)
    [] s = <<"\"", "\"">> -> JsonOk("string", 0)
    [] s = TxtObjA -> JsonOk("object", 1)
    [] OTHER -> JsonErr

\* bool(value) in Python.
Truthy(v) == v.kind # "null" /\ v.n # 0

(***************************************************************************)
(* extract_text_from_pdf, one step at a time, on its frame f:              *)
(*   pdf_content  the uploaded bytes: whether fitz can open them, and the  *)
(*                page texts of the document they encode                   *)
(*   doc          the fitz document: "none", "open" or "closed"            *)
(*   pdf          the pages of the local pdf (bound once open succeeded)   *)
(*   page_num, text_content   the loop's locals                            *)
(*   retval       the value the function is about to return                *)
(* Each operator gives the set of frames the step can lead to.             *)
(***************************************************************************)
PageTexts == {<<>>, <<"a">>, <<"b", "\n">>}

Bytes(valid, pages) == [valid |-> valid, pages |-> pages]
Garbage == Bytes(FALSE, <<>>)

NoFrame ==
  [pc |-> "out", pdf_content |-> Garbage, doc |-> "none", pdf |-> <<>>,
   page_num |-> 0, text_content |-> <<>>, retval |-> NoneStr]

\* Entry of extract_text_from_pdf(pdf_content).
ExCall(pdf_content) ==
  [NoFrame EXCEPT !.pc = "open", !.pdf_content = pdf_content]

\* except Exception: print(...); return None  (the finally clause is next).
ExRaise(f) == [f EXCEPT !.pc = "finally", !.retval = NoneStr]

\* fitz.open(stream=..., filetype="pdf"): raises on unreadable bytes.
ExOpen(f) ==
  IF f.pdf_content.valid
  THEN {[f EXCEPT !.pc = "loop", !.doc = "open", !.pdf = f.pdf_content.pages]}
  ELSE {ExRaise(f)}

\* One iteration of: for page_num in range(len(pdf)).  get_text may raise.
ExPage(f) ==
  {[f EXCEPT !.text_content = Append(@, f.pdf[f.page_num + 1]),
             !.page_num = @ + 1],
   ExRaise(f)}

\* return "\n".join(text_content)
ExJoin(f) ==
  {[f EXCEPT !.pc = "finally", !.retval = Some(JoinLines(f.text_content))]}

\* A finally clause that closes the document only on the normal path.
ExFinallyLeaky(f) ==
  {[f EXCEPT !.pc = "returned",
             !.doc = IF f.doc = "open" /\ f.retval.some THEN "closed" ELSE @]}

\* finally: if 'pdf' in locals(): pdf.close()
ExFinally(f) ==
  {[f EXCEPT !.pc = "returned", !.doc = IF f.doc = "open" THEN "closed" ELSE @]}

(***************************************************************************)
(* The requests.  req[r] holds the handler's position, what it was sent,   *)
(* the locals of parse_resume, the response, and a history of what was     *)
(* done for the request (nOpen .. parsed), which no step reads.            *)
(***************************************************************************)
NoResp == [status |-> 0, kind |-> "none", error |-> "", body |-> NoneVal]

\* jsonify({'error': msg}), status
ErrorResp(status, msg) ==
  [status |-> status, kind |-> "error", error |-> msg, body |-> NoneVal]

\* jsonify(result)
JsonResp(v) == [status |-> 200, kind |-> "json", error |-> "", body |-> v]

\* An exception left the view function: the framework answers, not the handler.
Unhandled(exc) ==
  [status |-> 500, kind |-> "unhandled", error |-> exc, body |-> NoneVal]

NoUpload == [hasFile |-> FALSE, filename |-> <<>>]
Upload(filename) == [hasFile |-> TRUE, filename |-> filename]

Idle ==
  [pc |-> "idle", upload |-> NoUpload, ex |-> NoFrame,
   raw_text |-> NoneStr, resume_text |-> <<>>, prompt |-> <<>>,
   response |-> <<>>, result |-> NoneVal, resp |-> NoResp,
   nOpen |-> 0, nNorm |-> 0, nGen |-> 0, nLoads |-> 0, nResp |-> 0,
   extracted |-> FALSE, replied |-> FALSE, sent |-> NoneStr,
   parsed |-> JsonErr, fail |-> "none"]

\* The handler returns (or raises): one response goes out.
Answer(q, resp) == [q EXCEPT !.pc = "done", !.resp = resp, !.nResp = @ + 1]

Filenames ==
  {<<>>, <<"c", "v">>, <<"c", "v", ".">>, <<"c", "v", ".", "t", "x", "t">>,
   <<"c", "v", ".", "P", "d", "f">>}

Uploads == {NoUpload} \cup {Upload(fn) : fn \in Filenames}

\* The documents clients upload: unreadable bytes, no page, two blank pages,
\* two pages of text.
SampleDocs ==
  {Garbage, Bytes(TRUE, <<>>), Bytes(TRUE, <<<<>>, <<>>>>),
   Bytes(TRUE, <<<<"a">>, <<"b", "\n">>>>)}

\* The replies of the text-generation service.
FencedObjA == FenceJson \o <<"\n">> \o TxtObjA \o <<"\n">> \o Fence
Replies ==
  {TxtObjA, FencedObjA, <<"{", "}">>, <<"n", "u", "l", "l">>,
   <<"s", "o", "r", "r", "y">>}

\* parse_resume_endpoint up to the call of file.read().
Validate(q, u) ==
  LET q1 == [q EXCEPT !.upload = u] IN
  IF ~u.hasFile THEN Answer(q1, ErrorResp(400, "No file provided"))
  ELSE IF u.filename = <<>> THEN Answer(q1, ErrorResp(400, "No file selected"))
  ELSE IF Len(RSplitDot(u.filename)) < 2 THEN Answer(q1, Unhandled("IndexError"))
  ELSE IF Lower(RSplitDot(u.filename)[2]) # <<"p", "d", "f">>
    THEN Answer(q1, ErrorResp(400, "Invalid file type. Only PDF files are allowed"))
  ELSE IF allowed_file(u.filename) THEN [q1 EXCEPT !.pc = "read"]
  ELSE Answer(q1, ErrorResp(400, "Invalid file type"))

Endpoint_Validate(r) ==
  /\ req[r].pc = "idle"
  /\ \E u \in Uploads : req' = [req EXCEPT ![r] = Validate(@, u)]
  /\ UNCHANGED <<xt, nt, cl>>

\* pdf_content = file.read(), then parser.parse_resume(pdf_content) is entered
\* and calls extract_text_from_pdf; a failing read is caught at the boundary.
Endpoint_ReadFile(r) ==
  /\ req[r].pc = "read"
  /\ \/ \E b \in SampleDocs :
          req' = [req EXCEPT ![r].pc = "extract", ![r].ex = ExCall(b)]
     \/ req' = [req EXCEPT ![r] = Answer([@ EXCEPT !.fail = "read"],
                                         ErrorResp(500, "OSError"))]
  /\ UNCHANGED <<xt, nt, cl>>

Extract_Open(r) ==
  /\ req[r].pc = "extract" /\ req[r].ex.pc = "open"
  /\ \E g \in ExOpen(req[r].ex) :
       req' = [req EXCEPT ![r].ex = g, ![r].nOpen = @ + 1]
  /\ UNCHANGED <<xt, nt, cl>>

Extract_Page(r) ==
  /\ req[r].pc = "extract" /\ req[r].ex.pc = "loop"
  /\ req[r].ex.page_num < Len(req[r].ex.pdf)
  /\ \E g \in ExPage(req[r].ex) : req' = [req EXCEPT ![r].ex = g]
  /\ UNCHANGED <<xt, nt, cl>>

Extract_Join(r) ==
  /\ req[r].pc = "extract" /\ req[r].ex.pc = "loop"
  /\ req[r].ex.page_num = Len(req[r].ex.pdf)
  /\ \E g \in ExJoin(req[r].ex) : req' = [req EXCEPT ![r].ex = g]
  /\ UNCHANGED <<xt, nt, cl>>

\* The finally clause, and the return into parse_resume: the frame's locals
\* are gone, the document object keeps its state.
Extract_Finally(r) ==
  /\ req[r].pc = "extract" /\ req[r].ex.pc = "finally"
  /\ \E g \in ExFinally(req[r].ex) :
       req' = [req EXCEPT ![r].pc = "check_text",
                          ![r].raw_text = g.retval,
                          ![r].extracted = g.retval.some,
                          ![r].fail = IF g.retval.some THEN @ ELSE "extraction",
                          ![r].ex = [NoFrame EXCEPT !.doc = g.doc]]
  /\ UNCHANGED <<xt, nt, cl>>

\* if not raw_text: return None
Parse_CheckText(r) ==
  /\ req[r].pc = "check_text"
  /\ IF ~req[r].raw_text.some \/ req[r].raw_text.s = <<>>
     THEN req' = [req EXCEPT ![r].pc = "respond", ![r].result = NoneVal,
                             ![r].raw_text = NoneStr,
                             ![r].fail = IF @ = "none" THEN "empty" ELSE @]
     ELSE req' = [req EXCEPT ![r].pc = "preprocess"]
  /\ UNCHANGED <<xt, nt, cl>>

\* resume_text = self.preprocess_resume_text(raw_text)
\* prompt = self._create_prompt(resume_text)
Parse_Preprocess(r) ==
  /\ req[r].pc = "preprocess"
  /\ LET t == preprocess_resume_text(req[r].raw_text.s) IN
       req' = [req EXCEPT ![r].pc = "generate", ![r].resume_text = t,
                          ![r].prompt = _create_prompt(t), ![r].nNorm = @ + 1]
  /\ UNCHANGED <<xt, nt, cl>>

\* A generation call that is tried again after it raised.
Parse_Generate_Retry(r) ==
  /\ req[r].pc = "generate" /\ req[r].nGen < 3
  /\ \/ \E reply \in Replies :
          req' = [req EXCEPT ![r].pc = "loads", ![r].response = reply,
                             ![r].nGen = @ + 1, ![r].sent = Some(req[r].prompt),
                             ![r].replied = TRUE]
     \/ req' = [req EXCEPT ![r].nGen = @ + 1, ![r].sent = Some(req[r].prompt)]
  /\ UNCHANGED <<xt, nt, cl>>

\* response = self.model.generate_content(prompt): the service replies with
\* some text, or the call raises and parse_resume returns None.
Parse_Generate(r) ==
  /\ req[r].pc = "generate"
  /\ \/ \E reply \in Replies :
          req' = [req EXCEPT ![r].pc = "loads", ![r].response = reply,
                             ![r].nGen = @ + 1, ![r].sent = Some(req[r].prompt),
                             ![r].replied = TRUE]
     \/ req' = [req EXCEPT ![r].pc = "respond", ![r].result = NoneVal,
                           ![r].nGen = @ + 1, ![r].sent = Some(req[r].prompt),
                           ![r].fail = "generate",
                           ![r].raw_text = NoneStr, ![r].resume_text = <<>>,
                           ![r].prompt = <<>>]
  /\ UNCHANGED <<xt, nt, cl>>

\* A parse error that leaves parse_resume and reaches the boundary's except.
Parse_Loads_Propagate(r) ==
  /\ req[r].pc = "loads"
  /\ LET p == json_loads(_clean_response(req[r].response))
         q == [req[r] EXCEPT !.result = p.v, !.nLoads = @ + 1, !.parsed = p,
                             !.fail = IF p.ok THEN @ ELSE "json",
                             !.raw_text = NoneStr, !.resume_text = <<>>,
                             !.prompt = <<>>, !.response = <<>>] IN
       req' = [req EXCEPT ![r] = IF p.ok THEN [q EXCEPT !.pc = "respond"]
                                 ELSE Answer(q, ErrorResp(500, "JSONDecodeError"))]
  /\ UNCHANGED <<xt, nt, cl>>

\* cleaned_response = self._clean_response(response.text)
\* resume_json = json.loads(cleaned_response); return resume_json
\* (a parse error is caught in parse_resume, which returns None)
Parse_Loads(r) ==
  /\ req[r].pc = "loads"
  /\ LET p == json_loads(_clean_response(req[r].response)) IN
       req' = [req EXCEPT ![r].pc = "respond", ![r].result = p.v,
                          ![r].nLoads = @ + 1, ![r].parsed = p,
                          ![r].fail = IF p.ok THEN @ ELSE "json",
                          ![r].raw_text = NoneStr, ![r].resume_text = <<>>,
                          ![r].prompt = <<>>, ![r].response = <<>>]
  /\ UNCHANGED <<xt, nt, cl>>

\* if result: return jsonify(result)
\* else: return jsonify({'error': 'Failed to parse resume'}), 500
Endpoint_Respond(r) ==
  /\ req[r].pc = "respond"
  /\ req' = [req EXCEPT ![r] =
       IF Truthy(@.result)
       THEN Answer([@ EXCEPT !.result = NoneVal], JsonResp(@.result))
       ELSE Answer([@ EXCEPT !.result = NoneVal],
                   ErrorResp(500, "Failed to parse resume"))]
  /\ UNCHANGED <<xt, nt, cl>>

(***************************************************************************)
(* The three functions on their own.                                       *)
(*   xt  a frame of extract_text_from_pdf                                  *)
(*   nt  a text, normalized once and twice                                 *)
(*   cl  a fenced reply and what cleaning makes of it                      *)
(***************************************************************************)
NtIdle == [pc |-> "idle", text |-> <<>>, once |-> <<>>, twice |-> <<>>]
ClIdle ==
  [pc |-> "idle", open |-> <<>>, payload |-> <<>>, ws |-> <<>>,
   response |-> <<>>, cleaned |-> <<>>]

Init ==
  /\ req = [r \in Reqs |-> Idle]
  /\ xt = NoFrame
  /\ nt = NtIdle
  /\ cl = ClIdle

Next ==
  \E r \in Reqs :
    \/ Endpoint_Validate(r)
    \/ Endpoint_ReadFile(r)
    \/ Extract_Open(r)
    \/ Extract_Page(r)
    \/ Extract_Join(r)
    \/ Extract_Finally(r)
    \/ Parse_CheckText(r)
    \/ Parse_Preprocess(r)
    \/ Parse_Generate(r)
    \/ Parse_Loads(r)
    \/ Endpoint_Respond(r)

Spec == Init /\ [][Next]_vars

(***************************************************************************)
(* extract_text_from_pdf on its own, over every document of up to          *)
(* MaxPages pages.                                                         *)
(***************************************************************************)
AllDocs == {Garbage} \cup {Bytes(TRUE, p) : p \in SeqsUpTo(PageTexts, MaxPages)}

InitExtract ==
  /\ req = [r \in Reqs |-> Idle]
  /\ xt \in {ExCall(b) : b \in AllDocs}
  /\ nt = NtIdle
  /\ cl = ClIdle

Xt_Open ==
  /\ xt.pc = "open"
  /\ xt' \in ExOpen(xt)
  /\ UNCHANGED <<req, nt, cl>>

Xt_Page ==
  /\ xt.pc = "loop" /\ xt.page_num < Len(xt.pdf)
  /\ xt' \in ExPage(xt)
  /\ UNCHANGED <<req, nt, cl>>

Xt_Join ==
  /\ xt.pc = "loop" /\ xt.page_num = Len(xt.pdf)
  /\ xt' \in ExJoin(xt)
  /\ UNCHANGED <<req, nt, cl>>

Xt_Finally ==
  /\ xt.pc = "finally"
  /\ xt' \in ExFinally(xt)
  /\ UNCHANGED <<req, nt, cl>>

NextExtract == Xt_Open \/ Xt_Page \/ Xt_Join \/ Xt_Finally

SpecExtract == InitExtract /\ [][NextExtract]_vars

(***************************************************************************)
(* preprocess_resume_text on its own, applied once and then again, over    *)
(* every text of up to MaxTextLen characters.                              *)
(***************************************************************************)
NormAlphabet == {" ", "\t", "\n", "a", "b"}

InitNorm ==
  /\ req = [r \in Reqs |-> Idle]
  /\ xt = NoFrame
  /\ nt \in {[NtIdle EXCEPT !.pc = "input", !.text = t] :
               t \in SeqsUpTo(NormAlphabet, MaxTextLen)}
  /\ cl = ClIdle

Nt_Once ==
  /\ nt.pc = "input"
  /\ nt' = [nt EXCEPT !.pc = "once", !.once = preprocess_resume_text(nt.text)]
  /\ UNCHANGED <<req, xt, cl>>

Nt_Twice ==
  /\ nt.pc = "once"
  /\ nt' = [nt EXCEPT !.pc = "twice", !.twice = preprocess_resume_text(nt.once)]
  /\ UNCHANGED <<req, xt, cl>>

NextNorm == Nt_Once \/ Nt_Twice

SpecNorm == InitNorm /\ [][NextNorm]_vars

(***************************************************************************)
(* _clean_response on its own.  A fenced reply is                          *)
(*   ws[1] open ws[2] payload ws[3] FENCE ws[4]                            *)
(* with open the fence with or without the json tag; a plain reply is      *)
(*   ws[1] payload ws[4]                                                   *)
(* The payloads are JSON strings of up to MaxInner characters, and the     *)
(* object {"a":1}.                                                         *)
(***************************************************************************)
InnerAlphabet == {BT, "x", " "}

Payloads ==
  {TxtObjA} \cup
  {<<"\"">> \o t \o <<"\"">> : t \in SeqsUpTo(InnerAlphabet, MaxInner)}

Paddings == [1..4 -> {<<>>, <<"\n">>, <<" ", "\n">>}]

HasFence(s) == \E i \in 0..Len(s) : StartsWith(Drop(s, i), Fence)

Compose(open, payload, ws) ==
  IF open = <<>> THEN ws[1] \o payload \o ws[4]
  ELSE ws[1] \o open \o ws[2] \o payload \o ws[3] \o Fence \o ws[4]

ClInputs ==
  {[ClIdle EXCEPT !.pc = "input", !.open = o, !.payload = p, !.ws = w,
                  !.response = Compose(o, p, w)] :
     o \in {Fence, FenceJson}, p \in Payloads, w \in Paddings}
  \cup
  {[ClIdle EXCEPT !.pc = "input", !.payload = p, !.ws = w,
                  !.response = Compose(<<>>, p, w)] :
     p \in {x \in Payloads : ~HasFence(x)},
     w \in {x \in Paddings : x[2] = <<>> /\ x[3] = <<>>}}

InitClean ==
  /\ req = [r \in Reqs |-> Idle]
  /\ xt = NoFrame
  /\ nt = NtIdle
  /\ cl \in ClInputs

Cl_Clean ==
  /\ cl.pc = "input"
  /\ cl' = [cl EXCEPT !.pc = "cleaned", !.cleaned = _clean_response(cl.response)]
  /\ UNCHANGED <<req, xt, nt>>

NextClean == Cl_Clean

SpecClean == InitClean /\ [][NextClean]_vars

(***************************************************************************)
(* Properties.                                                             *)
(***************************************************************************)
PdfExt == <<"p", "d", "f">>

\* The extension of a file name: what follows its last '.', nothing when it
\* has no '.'.
Extension(fn) == IF LastDot(fn) = 0 THEN <<>> ELSE Drop(fn, LastDot(fn))

FailedToParse == ErrorResp(500, "Failed to parse resume")

\* Neither fitz.open nor generate_content was called for the request.
Untouched(q) == q.nOpen = 0 /\ q.nNorm = 0 /\ q.nGen = 0 /\ q.nLoads = 0

\* The request got past the three validation checks.
Validated(q) == q.upload.hasFile /\ allowed_file(q.upload.filename)

\* C1: validation has a fixed precedence and runs before any processing: a
\* request without the file field is answered 400 "No file provided"; else
\* one with an empty file name 400 "No file selected"; else one whose file
\* name's extension is not pdf 400 "Invalid file type. Only PDF files are
\* allowed"; and in all three cases nothing was extracted or generated.
C1_ValidationPrecedence ==
  \A r \in Reqs :
    LET q == req[r]
        u == req[r].upload IN
    q.pc # "idle" =>
      /\ ~u.hasFile =>
           q.resp = ErrorResp(400, "No file provided") /\ Untouched(q)
      /\ u.hasFile /\ u.filename = <<>> =>
           q.resp = ErrorResp(400, "No file selected") /\ Untouched(q)
      /\ u.hasFile /\ u.filename # <<>> /\ Lower(Extension(u.filename)) # PdfExt =>
           /\ q.resp = ErrorResp(400, "Invalid file type. Only PDF files are allowed")
           /\ Untouched(q)

\* C2: every request that does not succeed is answered by the handler with a
\* JSON object holding one error string and status 400 or 500; no exception
\* leaves parse_resume_endpoint, whatever the file name.
C2_EveryFailureIsJsonError ==
  \A r \in Reqs :
    req[r].pc = "done" =>
      \/ req[r].resp.kind = "json" /\ req[r].resp.status = 200
      \/ req[r].resp.kind = "error" /\ req[r].resp.status \in {400, 500}

\* C3: for a validated request, a failed extraction (unreadable bytes, a
\* page that cannot be read), a generation call that raises and a reply that
\* is not JSON each end in exactly 500 "Failed to parse resume"; parse_resume
\* returns None and no exception leaves it or the handler.
C3_ProcessingFailureIs500 ==
  \A r \in Reqs :
    /\ Validated(req[r]) => req[r].resp.kind # "unhandled"
    /\ req[r].fail \in {"extraction", "generate", "json"} =>
         /\ Validated(req[r])
         /\ req[r].pc \in {"check_text", "respond", "done"}
         /\ req[r].pc = "respond" => req[r].result = NoneVal
         /\ req[r].pc = "done" => req[r].resp = FailedToParse

\* Two finished requests, one whose reply was not JSON and one whose
\* extraction failed, with a third way to fail (the generation call) covered
\* by the same formula.
C3_Witness ==
  \E r1, r2 \in Reqs :
    /\ req[r1].pc = "done" /\ req[r1].fail = "json" /\ req[r1].nLoads = 1
    /\ req[r2].pc = "done" /\ req[r2].fail = "extraction" /\ req[r2].nOpen = 1

\* C4: whenever the cleaned reply parses as JSON to a value V (any value,
\* also an empty object, null, ...), the response is 200 with body V.
C4_ValidJsonPassedThrough ==
  \A r \in Reqs :
    req[r].pc = "done" /\ req[r].parsed.ok =>
      req[r].resp = JsonResp(req[r].parsed.v)

\* The order of the positions of a request.
Rank(pc) ==
  CASE pc = "idle" -> 0 [] pc = "read" -> 1 [] pc = "extract" -> 2
    [] pc = "check_text" -> 3 [] pc = "preprocess" -> 4 [] pc = "generate" -> 5
    [] pc = "loads" -> 6 [] pc = "respond" -> 7 [] pc = "done" -> 8

C5_State ==
  \A r \in Reqs :
    LET q == req[r] IN
    /\ q.nGen <= 1 /\ q.nLoads <= 1 /\ q.nNorm <= 1 /\ q.nOpen <= 1 /\ q.nResp <= 1
    /\ q.nNorm = 1 => q.extracted
    /\ q.nGen = 1 => q.extracted /\ q.nNorm = 1
    /\ q.nLoads = 1 => q.replied /\ q.nGen = 1
    /\ q.resp.status = 200 =>
         q.nLoads = 1 /\ q.parsed.ok /\ q.resp = JsonResp(q.parsed.v)
    /\ (q.pc = "done") = (q.nResp = 1)
    /\ (q.pc = "done") = (q.resp # NoResp)

C5_Step ==
  \A r \in Reqs :
    /\ Rank(req'[r].pc) >= Rank(req[r].pc)
    /\ req[r].fail # "none" =>
         /\ req'[r].nOpen = req[r].nOpen
         /\ req'[r].nNorm = req[r].nNorm
         /\ req'[r].nGen = req[r].nGen
         /\ req'[r].nLoads = req[r].nLoads
         /\ req'[r].fail = req[r].fail
    /\ req[r].pc = "done" => req'[r] = req[r]

\* C5: a request moves forward only (received, extracted, interpreted,
\* returned); the model is called at most once and only after extraction
\* succeeded, the reply is parsed only after the call returned, a 200
\* response comes only from the parsed reply of the same request, after a
\* failed step no normalization, model call or parsing happens, and exactly
\* one response is sent.
C5_LinearSequence == [](C5_State) /\ [][C5_Step]_vars

\* One request answered 200 from its parsed reply, another failed at
\* extraction and answered without a model call.
C5_Witness ==
  \E r1, r2 \in Reqs :
    /\ req[r1].pc = "done" /\ req[r1].resp.status = 200 /\ req[r1].nGen = 1
    /\ req[r2].pc = "done" /\ req[r2].fail = "extraction" /\ req[r2].nGen = 0
    /\ req[r2].resp = FailedToParse

\* C6: the model is never sent a prompt that embeds an empty resume text: a
\* request whose normalized text is empty fails with 500 "Failed to parse
\* resume" without a call of generate_content.
C6_NoEmptyPrompt ==
  \A r \in Reqs :
    req[r].nGen > 0 => req[r].sent.some /\ req[r].sent.s # PromptHead \o PromptTail

\* C7: an open document belongs to a request that is inside its own
\* extraction call, after fitz.open and before the finally clause has run;
\* when the call has returned the document is closed if it was opened
\* (normal return or exception while reading a page) and none exists if
\* opening failed; a request opens at most one document.
C7_HandleScopedToExtraction ==
  /\ \A r \in Reqs :
       LET q == req[r] IN
       /\ q.ex.doc = "open" =>
            q.pc = "extract" /\ q.ex.pc \in {"loop", "finally"} /\ q.nOpen = 1
       /\ q.pc = "extract" /\ q.ex.pc = "finally" /\ ~q.ex.pdf_content.valid =>
            q.ex.doc = "none"
       /\ Rank(q.pc) > 2 => q.ex.doc = IF q.nOpen = 1 /\ q.ex.doc # "none"
                                        THEN "closed" ELSE "none"
       /\ q.nOpen <= 1
  /\ Cardinality({r \in Reqs : req[r].ex.doc = "open"})
       <= Cardinality({r \in Reqs : req[r].pc = "extract"})

\* One request holds its document open in the page loop while another has
\* left extraction through the exception path with its document closed.
C7_Witness ==
  \E r1, r2 \in Reqs :
    /\ req[r1].pc = "extract" /\ req[r1].ex.doc = "open" /\ req[r1].ex.pc = "loop"
    /\ req[r2].pc = "check_text" /\ ~req[r2].raw_text.some
    /\ req[r2].ex.doc = "closed"

\* t is s without the whitespace at its two ends.
IsTrimOf(t, s) ==
  \E i \in 0..Len(s) : \E j \in i..Len(s) :
    /\ t = SubSeq(s, i + 1, j)
    /\ \A k \in 1..i : IsSpace(s[k])
    /\ \A k \in (j + 1)..Len(s) : IsSpace(s[k])
    /\ t # <<>> => ~IsSpace(t[1]) /\ ~IsSpace(t[Len(t)])

\* C8: cleaning a fenced reply yields exactly the payload, trimmed, with its
\* interior unchanged; a reply without fences is returned trimmed and
\* otherwise unchanged.
C8_CleanYieldsPayload ==
  cl.pc = "cleaned" =>
    IF cl.open = <<>> THEN IsTrimOf(cl.cleaned, cl.response)
    ELSE IsTrimOf(cl.cleaned, cl.payload)

\* A normalized text: its only whitespace is single spaces between two
\* characters that are not whitespace.
IsNormalized(t) ==
  \A i \in 1..Len(t) :
    IsSpace(t[i]) =>
      /\ t[i] = " "
      /\ i > 1 /\ i < Len(t)
      /\ ~IsSpace(t[i - 1]) /\ ~IsSpace(t[i + 1])

\* The characters of t that are not whitespace, in order.
RECURSIVE Letters(_)
Letters(t) ==
  IF t = <<>> THEN <<>>
  ELSE IF IsSpace(Head(t)) THEN Letters(Tail(t))
  ELSE <<Head(t)>> \o Letters(Tail(t))

\* C9: normalization is idempotent, and its result has no leading or
\* trailing whitespace and no whitespace but single spaces between runs of
\* other characters (which it keeps, in order).
C9_NormalizeIdempotent ==
  /\ nt.pc \in {"once", "twice"} =>
       IsNormalized(nt.once) /\ Letters(nt.once) = Letters(nt.text)
  /\ nt.pc = "twice" => nt.twice = nt.once

\* A text with leading whitespace and an inner run of two whitespace
\* characters, normalized twice.
C9_Witness ==
  /\ nt.pc = "twice"
  /\ nt.text = <<"\t", "a", "\n", " ", "b">>
  /\ nt.once = <<"a", " ", "b">>

\* Where page i starts in the joined text (0-based offset).
RECURSIVE Offset(_, _)
Offset(P, i) == IF i = 1 THEN 0 ELSE Offset(P, i - 1) + Len(P[i - 1]) + 1

\* s is P[1] "\n" P[2] "\n" ... "\n" P[n]: each page once, in order, one
\* newline between two pages, none before the first or after the last.
IsJoinOf(s, P) ==
  IF P = <<>> THEN s = <<>>
  ELSE /\ Len(s) = Offset(P, Len(P)) + Len(P[Len(P)])
       /\ \A i \in 1..Len(P) :
            /\ SubSeq(s, Offset(P, i) + 1, Offset(P, i) + Len(P[i])) = P[i]
            /\ i < Len(P) => s[Offset(P, i) + Len(P[i]) + 1] = "\n"

\* C10: for a document that opens and whose pages all read, the value
\* returned is the page texts joined in page order with one newline between
\* consecutive pages; a document without pages yields the empty text, not
\* None; while looping, the texts collected are the first page_num pages.
C10_PagesJoinedInOrder ==
  /\ xt.pc = "loop" => xt.text_content = SubSeq(xt.pdf, 1, xt.page_num)
  /\ xt.pc \in {"finally", "returned"} /\ xt.retval.some =>
       /\ xt.pdf_content.valid
       /\ IsJoinOf(xt.retval.s, xt.pdf_content.pages)
  /\ xt.pc = "finally" /\ xt.pdf_content.valid /\ xt.pdf_content.pages = <<>> =>
       xt.retval = Some(<<>>)

\* A three-page document with a blank page in the middle, extracted.
C10_Witness ==
  /\ xt.pc = "returned" /\ xt.retval.some
  /\ xt.pdf_content.pages = <<<<"b", "\n">>, <<>>, <<"a">>>>
  /\ xt.retval.s = <<"b", "\n", "\n", "\n", "a">>

====
